---- MODULE Spec2Model ----
(***************************************************************************)
(* Schrage's algorithm for 1|r_j,q_j|C_max, with and without preemptions   *)
(* (src/src/schrage/mod.rs), and the two makespan calculators              *)
(* (src/src/jobs.rs).                                                      *)
(*                                                                         *)
(* One behaviour is one input collection handed first to schrage and then  *)
(* to schrage_preemptive.  Every iteration of a scheduler's outer `while`  *)
(* loop is one step.                                                       *)
(***************************************************************************)
EXTENDS Integers, Sequences, FiniteSets, Bags, TLC

\* ------------------------------------------------------------------ bounds
MaxJobs == 3
MaxDelivery == 2
MaxProcessing == 3
MaxCooldown == 2
MaxEntries == 4
MaxTime == 4

\* ------------------------------------------------------------------ jobs.rs
\* struct Job { delivery_time, processing_time, cooldown_time }
Job == [delivery_time : 0..MaxDelivery,
        processing_time : 0..MaxProcessing,
        cooldown_time : 0..MaxCooldown]

max(a, b) == IF a >= b THEN a ELSE b

\* The loop body without the branch for a machine that has to wait.
JobListCMaxStepNoWait(acc, job) ==
    LET s == acc.s + job.processing_time
    IN  [s |-> s, makespan |-> max(acc.makespan, s + job.cooldown_time)]

\* JobList::c_max: the loop body, applied to the pair (s, makespan).
JobListCMaxStep(acc, job) ==
    LET s == IF job.delivery_time > acc.s
             THEN job.delivery_time + job.processing_time
             ELSE acc.s + job.processing_time
    IN  [s |-> s, makespan |-> max(acc.makespan, s + job.cooldown_time)]

RECURSIVE JobListCMaxFrom(_, _, _)
JobListCMaxFrom(list, k, acc) ==
    IF k > Len(list) THEN acc
    ELSE JobListCMaxFrom(list, k + 1, JobListCMaxStep(acc, list[k]))

JobListCMax(list) == JobListCMaxFrom(list, 1, [s |-> 0, makespan |-> 0]).makespan

\* u32::checked_sub(d).unwrap_or(0)
CheckedSubOr0(a, d) == IF a >= d THEN a - d ELSE 0

\* JobSchedule::c_max: the `for (time, index) in iter` loop.  Indices into
\* `jobs` are 0-based in the source and in the timetable; Seq positions are
\* index + 1.
\* The loop without the update of processing_times_remaining.
RECURSIVE JobScheduleCMaxFromNoProgress(_, _, _, _)
JobScheduleCMaxFromNoProgress(sjobs, tt, k, acc) ==
    IF k > Len(tt) THEN acc
    ELSE LET pi_ == acc.prev_index
             rem == acc.remaining[pi_]
             mk  == max(acc.makespan,
                        acc.prev_time + rem + sjobs[pi_ + 1].cooldown_time)
         IN  JobScheduleCMaxFromNoProgress(sjobs, tt, k + 1,
               [makespan   |-> mk,
                remaining  |-> acc.remaining,
                prev_time  |-> tt[k].time,
                prev_index |-> tt[k].index])

RECURSIVE JobScheduleCMaxFrom(_, _, _, _)
JobScheduleCMaxFrom(sjobs, tt, k, acc) ==
    IF k > Len(tt) THEN acc
    ELSE LET pi_ == acc.prev_index
             rem == acc.remaining[pi_]
             mk  == max(acc.makespan,
                        acc.prev_time + rem + sjobs[pi_ + 1].cooldown_time)
         IN  JobScheduleCMaxFrom(sjobs, tt, k + 1,
               [makespan   |-> mk,
                remaining  |-> [acc.remaining EXCEPT
                                  ![pi_] = CheckedSubOr0(rem, tt[k].time - acc.prev_time)],
                prev_time  |-> tt[k].time,
                prev_index |-> tt[k].index])

\* The value of makespan when the loop ends, without the last entry's term.
JobScheduleCMaxLoopOnly(sjobs, tt) ==
    IF Len(tt) = 0 THEN 0
    ELSE JobScheduleCMaxFrom(sjobs, tt, 2,
           [makespan   |-> 0,
            remaining  |-> [i \in 0..(Len(sjobs) - 1) |->
                              sjobs[i + 1].processing_time],
            prev_time  |-> tt[1].time,
            prev_index |-> tt[1].index]).makespan

JobScheduleCMax(sjobs, tt) ==
    IF Len(tt) = 0 THEN 0
    ELSE LET acc == JobScheduleCMaxFrom(sjobs, tt, 2,
                      [makespan   |-> 0,
                       remaining  |-> [i \in 0..(Len(sjobs) - 1) |->
                                         sjobs[i + 1].processing_time],
                       prev_time  |-> tt[1].time,
                       prev_index |-> tt[1].index])
         IN  max(acc.makespan,
                 acc.prev_time + acc.remaining[acc.prev_index]
                   + sjobs[acc.prev_index + 1].cooldown_time)

\* ------------------------------------------------------------ schrage/mod.rs
\* u32::cmp.  -1 = Less, 0 = Equal, 1 = Greater.
Cmp(a, b) == IF a < b THEN -1 ELSE IF a = b THEN 0 ELSE 1

\* SchrageJob ordered by processing time first, cooldown time as tiebreaker.
SchrageJobCmpByProcessing(a, b) ==
    IF a.processing_time = b.processing_time
    THEN Cmp(a.cooldown_time, b.cooldown_time)
    ELSE Cmp(a.processing_time, b.processing_time)

\* SchrageJob ordered by cooldown time alone.
SchrageJobCmpNoTiebreak(a, b) == Cmp(a.cooldown_time, b.cooldown_time)

\* impl Ord for SchrageJob: ascending cooldown time, processing time as
\* tiebreaker.
SchrageJobCmp(a, b) ==
    IF a.cooldown_time = b.cooldown_time
    THEN Cmp(a.processing_time, b.processing_time)
    ELSE Cmp(a.cooldown_time, b.cooldown_time)

\* The derived lexicographic order of the (SchrageJob, usize) tuples that
\* schrage_preemptive keeps in its heap.
EntryCmp(x, y) ==
    IF SchrageJobCmp(x.job, y.job) # 0
    THEN SchrageJobCmp(x.job, y.job)
    ELSE Cmp(x.i, y.i)

\* All rearrangements of a sequence.
Rearrangements(s) ==
    {[k \in 1..Len(s) |-> s[f[k]]] : f \in Permutations(1..Len(s))}

\* jobs.sort_unstable_by_key(|x| Reverse(x.delivery_time)): the order of jobs
\* with equal keys is not specified.
SortedDescending(s) ==
    {r \in Rearrangements(s) :
       \A a, b \in 1..Len(r) : a < b => r[a].delivery_time >= r[b].delivery_time}

\* The sort with processing_time as its key.
SortedByProcessing(s) ==
    {r \in Rearrangements(s) :
       \A a, b \in 1..Len(r) : a < b => r[a].processing_time <= r[b].processing_time}

\* jobs.sort_unstable_by_key(|x| x.delivery_time)
SortedAscending(s) ==
    {r \in Rearrangements(s) :
       \A a, b \in 1..Len(r) : a < b => r[a].delivery_time <= r[b].delivery_time}

\* A job counts as available only after its delivery time: `<` for `<=`.
IsAvailableLate(job, t) == job.delivery_time < t

\* A job counts as available one time unit before its delivery time.
IsAvailableEarly(job, t) == job.delivery_time <= t + 1

\* The release condition of both inner `while` loops.
IsAvailable(job, t) == job.delivery_time <= t

\* The inner loop with a heap that keeps one copy of equal jobs.
RECURSIVE SchrageReleaseAsSet(_, _, _)
SchrageReleaseAsSet(jobs, ready, t) ==
    IF Len(jobs) # 0 /\ IsAvailable(jobs[Len(jobs)], t)
    THEN SchrageReleaseAsSet(SubSeq(jobs, 1, Len(jobs) - 1),
                             SetToBag(BagToSet(ready) \cup {jobs[Len(jobs)]}), t)
    ELSE [jobs |-> jobs, ready |-> ready]

\* schrage's inner loop: pop from the tail of `jobs` into the heap while the
\* last job is available.  The heap is a bag of jobs.
RECURSIVE SchrageRelease(_, _, _)
SchrageRelease(jobs, ready, t) ==
    IF Len(jobs) # 0 /\ IsAvailable(jobs[Len(jobs)], t)
    THEN SchrageRelease(SubSeq(jobs, 1, Len(jobs) - 1),
                        ready (+) SetToBag({jobs[Len(jobs)]}), t)
    ELSE [jobs |-> jobs, ready |-> ready]

\* BinaryHeap::pop returns a greatest element; which one of several elements
\* that compare Equal is not specified.
HeapMaxima(ready) ==
    {j \in BagToSet(ready) :
       \A k \in BagToSet(ready) : SchrageJobCmp(k, j) # 1}

\* schrage as a function of its argument: the sequences the loop can return
\* when entered with (jobs, ready_to_run, t, pi), one per way of resolving the
\* heap's ties.
RECURSIVE SchrageFrom(_, _, _, _)
SchrageFrom(jobs, ready, t, out) ==
    IF Len(jobs) = 0 /\ ready = EmptyBag THEN {out}
    ELSE LET rel == SchrageRelease(jobs, ready, t)
         IN  IF rel.ready # EmptyBag
             THEN UNION {SchrageFrom(rel.jobs, rel.ready (-) SetToBag({sjob}),
                                     t + sjob.processing_time, Append(out, sjob)) :
                           sjob \in HeapMaxima(rel.ready)}
             ELSE SchrageFrom(rel.jobs, rel.ready,
                              rel.jobs[Len(rel.jobs)].delivery_time, out)

\* All results of schrage(js), over the orders the unstable sort can produce.
SchrageResults(js) ==
    UNION {SchrageFrom(s, EmptyBag, 0, <<>>) : s \in SortedDescending(js)}

\* The inner loop pushing the index after the increment of job_index.
RECURSIVE PreemptiveReleaseOneBased(_, _, _, _)
PreemptiveReleaseOneBased(jobs, ready, ji, t) ==
    IF ji < Len(jobs) /\ IsAvailable(jobs[ji + 1], t)
    THEN PreemptiveReleaseOneBased(jobs,
                                   ready \cup {[job |-> jobs[ji + 1], i |-> ji + 1]},
                                   ji + 1, t)
    ELSE [ready |-> ready, job_index |-> ji]

\* schrage_preemptive's inner loop: push (SchrageJob{jobs[job_index]},
\* job_index) while the job at job_index is available.  The heap is a set of
\* entries [job, i]; indices are 0-based.
RECURSIVE PreemptiveRelease(_, _, _, _)
PreemptiveRelease(jobs, ready, ji, t) ==
    IF ji < Len(jobs) /\ IsAvailable(jobs[ji + 1], t)
    THEN PreemptiveRelease(jobs, ready \cup {[job |-> jobs[ji + 1], i |-> ji]},
                           ji + 1, t)
    ELSE [ready |-> ready, job_index |-> ji]

\* BinaryHeap::pop on the tuples: the greatest entry (indices are distinct, so
\* it is unique).
EntryMax(ready) ==
    CHOOSE x \in ready : \A y \in ready : EntryCmp(y, x) # 1

\* A job arriving one time unit before this one is done does not count.
ArrivesWellBeforeDone(next_delivery, t) == next_delivery + 1 < t

\* A job arriving at the instant this one is done counts too.
ArrivesNotAfterDone(next_delivery, t) == next_delivery <= t

\* `if next_delivery < t`
ArrivesBeforeDone(next_delivery, t) == next_delivery < t

\* The clock is stored instead of the difference.
RemainingNotReduced(t, next_delivery) == t

\* The remaining processing time, one too many.
RemainingOffByOne(t, next_delivery) == t - next_delivery + 1

\* `sjob.job.processing_time = t - next_delivery`
RemainingAfterPreemption(t, next_delivery) == t - next_delivery

\* The check looks at timetable.first() instead of timetable.last().
NotScheduledFirst(tt, i) == Len(tt) = 0 \/ tt[1].index # i

\* A job counts as already scheduled when any entry names it.
NotInTimetable(tt, i) == \A k \in 1..Len(tt) : tt[k].index # i

\* `timetable.is_empty() || timetable.last().unwrap().1 != i`
NotAlreadyScheduled(tt, i) == Len(tt) = 0 \/ tt[Len(tt)].index # i


\* ------------------------------------------------------------------ state
VARIABLES
    input,          \* the caller's collection of jobs
    pc,             \* which call is running
    s_jobs,         \* schrage: `jobs`, sorted by descending delivery time
    s_ready_to_run, \* schrage: `ready_to_run`
    s_t,            \* schrage: `t`
    pi,             \* schrage: `pi.jobs`
    s_iter,         \* schrage: what the last iteration of the outer loop did
    s_decisions,    \* schrage: number of jobs removed from ready_to_run so far
    s_selected_at,  \* schrage: the value of `t` at each removal, in order
    p_jobs,         \* schrage_preemptive: `jobs`, sorted by delivery time
    p_ready_to_run, \* schrage_preemptive: `ready_to_run`
    p_t,            \* schrage_preemptive: `t`
    timetable,      \* schrage_preemptive: `timetable`
    job_index,      \* schrage_preemptive: `job_index`
    p_iter,         \* schrage_preemptive: what the last iteration did
    p_decisions,    \* schrage_preemptive: number of entries removed from ready_to_run
    p_finished,     \* schrage_preemptive: indices popped and not pushed back
    p_preemptions,  \* schrage_preemptive: number of entries pushed back
    p_finished_at,  \* schrage_preemptive: `t` after the run that finished each index
    c_result        \* JobSchedule::c_max: the value returned

s_vars == <<s_jobs, s_ready_to_run, s_t, pi, s_iter, s_decisions, s_selected_at>>
p_vars == <<p_jobs, p_ready_to_run, p_t, timetable, job_index, p_iter,
            p_decisions, p_finished, p_preemptions, p_finished_at>>
vars == <<input, pc, s_vars, p_vars, c_result>>

NoJob == [delivery_time |-> 0, processing_time |-> 0, cooldown_time |-> 0]

SNoIter == [kind |-> "none", job |-> NoJob, t |-> 0, pool |-> EmptyBag]
PNoIter == [kind |-> "none", i |-> 0, job |-> NoJob, t |-> 0, t_run |-> 0,
            pool |-> {}, new_entry |-> FALSE, pushed_back |-> FALSE,
            finished |-> {}]

\* sort_unstable_by_key leaves jobs with equal keys in any order and nothing
\* else of the argument's order reaches the loops, so the collections are
\* enumerated up to reordering: one sequence per multiset of jobs.
JobCode(j) == (j.delivery_time * (MaxProcessing + 1) + j.processing_time)
                * (MaxCooldown + 1) + j.cooldown_time

RECURSIVE InputsOfLen(_)
InputsOfLen(n) ==
    IF n = 0 THEN {<<>>}
    ELSE {Append(x[1], x[2]) :
            x \in {y \in InputsOfLen(n - 1) \X Job :
                     n = 1 \/ JobCode(y[1][n - 1]) <= JobCode(y[2])}}

Inputs == UNION {InputsOfLen(n) : n \in 0..MaxJobs}

Init ==
    /\ input \in Inputs
    /\ pc = "call_schrage"
    /\ s_jobs = <<>>
    /\ s_ready_to_run = EmptyBag
    /\ s_t = 0
    /\ pi = <<>>
    /\ s_iter = SNoIter
    /\ s_decisions = 0
    /\ s_selected_at = <<>>
    /\ p_jobs = <<>>
    /\ p_ready_to_run = {}
    /\ p_t = 0
    /\ timetable = <<>>
    /\ job_index = 0
    /\ p_iter = PNoIter
    /\ p_decisions = 0
    /\ p_finished = {}
    /\ p_preemptions = 0
    /\ p_finished_at = [i \in {} |-> 0]
    /\ c_result = 0

\* ---------------------------------------------------------------- schrage
\* schrage(jobs): the sort and the initialisation of the locals.
SchrageCall ==
    /\ pc = "call_schrage"
    /\ s_jobs' \in SortedDescending(input)
    /\ s_ready_to_run' = EmptyBag
    /\ s_t' = 0
    /\ pi' = <<>>
    /\ pc' = "schrage"
    /\ UNCHANGED <<input, c_result, s_iter, s_decisions, s_selected_at, p_vars>>

\* `while !jobs.is_empty() || !ready_to_run.is_empty()`
SchrageLoopCond == Len(s_jobs) # 0 \/ s_ready_to_run # EmptyBag

\* One iteration that finds a job in the heap: `Some(sjob)`.
SchrageSchedule ==
    /\ pc = "schrage"
    /\ SchrageLoopCond
    /\ LET rel == SchrageRelease(s_jobs, s_ready_to_run, s_t)
       IN  /\ rel.ready # EmptyBag
           /\ \E sjob \in HeapMaxima(rel.ready) :
                /\ pi' = Append(pi, sjob)
                /\ s_t' = s_t + sjob.processing_time
                /\ s_ready_to_run' = rel.ready (-) SetToBag({sjob})
                /\ s_iter' = [kind |-> "pop", job |-> sjob, t |-> s_t,
                              pool |-> rel.ready]
           /\ s_jobs' = rel.jobs
    /\ s_decisions' = s_decisions + 1
    /\ s_selected_at' = Append(s_selected_at, s_t)
    /\ UNCHANGED <<input, c_result, pc, p_vars>>

\* One iteration that finds the heap empty: `None`.  jobs.last().unwrap()
\* panics on an empty vector.
SchrageIdle ==
    /\ pc = "schrage"
    /\ SchrageLoopCond
    /\ LET rel == SchrageRelease(s_jobs, s_ready_to_run, s_t)
       IN  /\ rel.ready = EmptyBag
           /\ s_jobs' = rel.jobs
           /\ s_ready_to_run' = rel.ready
           /\ IF Len(rel.jobs) = 0
              THEN pc' = "panic" /\ s_t' = s_t
              ELSE pc' = pc /\ s_t' = rel.jobs[Len(rel.jobs)].delivery_time
    /\ s_iter' = [kind |-> "idle", job |-> NoJob, t |-> s_t, pool |-> EmptyBag]
    /\ UNCHANGED <<input, c_result, pi, s_decisions, s_selected_at, p_vars>>

\* The loop condition fails: `pi` is returned.
SchrageReturn ==
    /\ pc = "schrage"
    /\ ~SchrageLoopCond
    /\ pc' = "call_preemptive"
    /\ UNCHANGED <<input, c_result, s_vars, p_vars>>

\* ------------------------------------------------------ schrage_preemptive
PreemptiveCall ==
    /\ pc = "call_preemptive"
    /\ p_jobs' \in SortedAscending(input)
    /\ p_ready_to_run' = {}
    /\ p_t' = 0
    /\ timetable' = <<>>
    /\ job_index' = 0
    /\ pc' = "preemptive"
    /\ UNCHANGED <<input, c_result, s_vars, p_iter, p_decisions, p_finished, p_preemptions,
                   p_finished_at>>

\* The loop condition with `<=` for `<`.
PreemptiveLoopCondInclusive == job_index <= Len(p_jobs) \/ p_ready_to_run # {}

\* `while job_index < jobs.len() || !ready_to_run.is_empty()`
PreemptiveLoopCond == job_index < Len(p_jobs) \/ p_ready_to_run # {}

\* One iteration that finds an entry in the heap: `Some((mut sjob, i))`.
PreemptiveSchedule ==
    /\ pc = "preemptive"
    /\ PreemptiveLoopCond
    /\ LET rel   == PreemptiveRelease(p_jobs, p_ready_to_run, job_index, p_t)
           top   == EntryMax(rel.ready)
           rest  == rel.ready \ {top}
           fresh == NotAlreadyScheduled(timetable, top.i)
           t_run == p_t + top.job.processing_time
           next_delivery == p_jobs[rel.job_index + 1].delivery_time
           preempt == /\ rel.job_index < Len(p_jobs)
                      /\ ArrivesBeforeDone(next_delivery, t_run)
       IN  /\ rel.ready # {}
           /\ job_index' = rel.job_index
           /\ timetable' = IF fresh
                           THEN Append(timetable, [time |-> p_t, index |-> top.i])
                           ELSE timetable
           /\ IF preempt
              THEN /\ p_ready_to_run' = rest \cup
                        {[job |-> [top.job EXCEPT !.processing_time =
                                     RemainingAfterPreemption(t_run, next_delivery)],
                          i |-> top.i]}
                   /\ p_t' = next_delivery
                   /\ p_finished' = p_finished
                   /\ p_preemptions' = p_preemptions + 1
                   /\ p_finished_at' = p_finished_at
              ELSE /\ p_ready_to_run' = rest
                   /\ p_t' = t_run
                   /\ p_finished' = p_finished \cup {top.i}
                   /\ p_preemptions' = p_preemptions
                   /\ p_finished_at' = [i \in p_finished \cup {top.i} |->
                                          IF i = top.i THEN t_run ELSE p_finished_at[i]]
           /\ p_iter' = [kind |-> "pop", i |-> top.i, job |-> top.job,
                         t |-> p_t, t_run |-> t_run, pool |-> rel.ready,
                         new_entry |-> fresh, pushed_back |-> preempt,
                         finished |-> p_finished]
    /\ p_decisions' = p_decisions + 1
    /\ UNCHANGED <<input, c_result, pc, s_vars, p_jobs>>

\* One iteration that finds the heap empty: `None`.  jobs[job_index] panics
\* when job_index is out of bounds.
PreemptiveIdle ==
    /\ pc = "preemptive"
    /\ PreemptiveLoopCond
    /\ LET rel == PreemptiveRelease(p_jobs, p_ready_to_run, job_index, p_t)
       IN  /\ rel.ready = {}
           /\ job_index' = rel.job_index
           /\ p_ready_to_run' = rel.ready
           /\ IF rel.job_index >= Len(p_jobs)
              THEN pc' = "panic" /\ p_t' = p_t
              ELSE pc' = pc /\ p_t' = p_jobs[rel.job_index + 1].delivery_time
    /\ p_iter' = [PNoIter EXCEPT !.kind = "idle", !.t = p_t,
                                 !.finished = p_finished]
    /\ UNCHANGED <<input, c_result, s_vars, p_jobs, timetable, p_decisions, p_finished,
                   p_preemptions, p_finished_at>>

\* The loop condition fails: JobSchedule{jobs, timetable} is returned.
PreemptiveReturn ==
    /\ pc = "preemptive"
    /\ ~PreemptiveLoopCond
    /\ pc' = "done"
    /\ UNCHANGED <<input, c_result, s_vars, p_vars>>

Next ==
    \/ SchrageCall
    \/ SchrageSchedule
    \/ SchrageIdle
    \/ SchrageReturn
    \/ PreemptiveCall
    \/ PreemptiveSchedule
    \/ PreemptiveIdle
    \/ PreemptiveReturn

Spec == Init /\ [][Next]_vars

\* The calls are sequential code: a step that can be taken is taken.
FairSpec == Spec /\ WF_vars(Next)

\* ------------------------------------------------------ documented examples
\* Job::new(delivery_time, processing_time, cooldown_time)
JobNew(r, p, q) == [delivery_time |-> r, processing_time |-> p, cooldown_time |-> q]

\* The module documentation's example, also test_schrage_ex1.
Example1 ==
    <<JobNew(10, 5, 7), JobNew(13, 6, 26), JobNew(11, 7, 24), JobNew(20, 4, 21),
      JobNew(30, 3, 8), JobNew(0, 6, 17), JobNew(30, 2, 0)>>

\* schrage_preemptive's documentation example, also test_schrage_preemptive1.
Example2 ==
    <<JobNew(0, 27, 78), JobNew(140, 7, 67), JobNew(14, 36, 54), JobNew(133, 76, 5)>>

\* test_schrage_ex2
Example3 ==
    <<JobNew(1, 5, 9), JobNew(4, 5, 4), JobNew(1, 4, 6), JobNew(7, 3, 3),
      JobNew(3, 6, 8), JobNew(4, 7, 1)>>

\* The jobs of test_schedule_c_max_with_gap and
\* test_schedule_c_max_with_preemption.
Example4 == <<JobNew(0, 14, 20), JobNew(5, 8, 7), JobNew(42, 10, 5)>>
Example5 == <<JobNew(3, 20, 0), JobNew(5, 8, 7)>>

Examples == {Example1, Example2, Example3, Example4, Example5}

\* The two schedulers called on the documented examples.
ExampleInit ==
    /\ input \in Examples
    /\ pc = "call_schrage"
    /\ s_jobs = <<>>
    /\ s_ready_to_run = EmptyBag
    /\ s_t = 0
    /\ pi = <<>>
    /\ s_iter = SNoIter
    /\ s_decisions = 0
    /\ s_selected_at = <<>>
    /\ p_jobs = <<>>
    /\ p_ready_to_run = {}
    /\ p_t = 0
    /\ timetable = <<>>
    /\ job_index = 0
    /\ p_iter = PNoIter
    /\ p_decisions = 0
    /\ p_finished = {}
    /\ p_preemptions = 0
    /\ p_finished_at = [i \in {} |-> 0]
    /\ c_result = 0

ExampleSpec == ExampleInit /\ [][Next]_vars

\* The results, once both calls have returned.
Returned == pc = "done"
SchrageCMax == JobListCMax(pi)
PreemptiveCMax == JobScheduleCMax(p_jobs, timetable)


\* ------------------------------------------------------------------ claims
\* Number of occurrences of job j in the sequence s.
Count(s, j) == Cardinality({k \in 1..Len(s) : s[k] = j})

SameMultiset(a, b) ==
    /\ Len(a) = Len(b)
    /\ \A k \in 1..Len(a) : Count(a, a[k]) = Count(b, a[k])

RECURSIVE SumOver(_, _)
SumOver(f, S) ==
    IF S = {} THEN 0
    ELSE LET x == CHOOSE y \in S : TRUE IN f[x] + SumOver(f, S \ {x})

Min(S) == CHOOSE x \in S : \A y \in S : x <= y
Max(S) == CHOOSE x \in S : \A y \in S : x >= y

\* C1: once both schedulers have returned, the makespan of the preemptive
\* schedule is at most the makespan of schrage's sequence.
C1_Dominance == Returned => PreemptiveCMax <= SchrageCMax

\* A run in which a job was preempted and the preemptive schedule is strictly
\* better.
C1_Witness ==
    /\ Returned
    /\ Len(timetable) > Len(p_jobs)
    /\ PreemptiveCMax < SchrageCMax

\* For a set S of jobs: no job of S starts before the earliest delivery time
\* in S, the machine needs the sum of their processing times, and the job of S
\* processed last still has at least the smallest cooldown time of S to go.
\* Every feasible schedule, preemptive or not, has a makespan of at least this.
SubsetBound(js, S) ==
    Min({js[k].delivery_time : k \in S})
      + SumOver([k \in S |-> js[k].processing_time], S)
      + Min({js[k].cooldown_time : k \in S})

LowerBound(js) ==
    IF Len(js) = 0 THEN 0
    ELSE Max({SubsetBound(js, S) : S \in (SUBSET (1..Len(js))) \ {{}}})

\* C2: the makespan of the preemptive schedule is minimal: it equals the lower
\* bound that holds for every feasible schedule of the jobs, and it is no
\* larger than JobList::c_max of any order of the jobs run without preemption.
C2_Optimal ==
    Returned =>
      /\ PreemptiveCMax = LowerBound(input)
      /\ \A order \in Rearrangements(input) : PreemptiveCMax <= JobListCMax(order)

\* A run in which every order without preemption is strictly worse.
C2_Witness ==
    /\ Returned
    /\ Len(input) = 3
    /\ \A order \in Rearrangements(input) : PreemptiveCMax < JobListCMax(order)

\* C3: the sequence schrage returns holds every job of the input exactly as
\* often as the input does.
C3_Permutation ==
    pc \in {"call_preemptive", "preemptive", "done"} => SameMultiset(pi, input)

\* schrage has returned a collection that holds the same job twice.
C3_Witness ==
    /\ pc = "call_preemptive"
    /\ Len(pi) = 3
    /\ \E a, b \in 1..Len(pi) : a < b /\ pi[a] = pi[b]
    /\ \E a, b \in 1..Len(pi) : a < b /\ pi[a] # pi[b]

\* C4: a job leaves schrage's heap at a clock value that is at least its
\* delivery time, and every timetable entry of schrage_preemptive has a time
\* that is at least the delivery time of its job.
C4_NoPrematureStart ==
    /\ s_iter.kind = "pop" => s_iter.t >= s_iter.job.delivery_time
    /\ \A k \in 1..Len(timetable) :
         timetable[k].time >= p_jobs[timetable[k].index + 1].delivery_time

\* Both schedulers have started a job at exactly its delivery time, after
\* time 0.
C4_Witness ==
    /\ Returned
    /\ s_iter.kind = "pop" /\ s_iter.t > 0 /\ s_iter.t = s_iter.job.delivery_time
    /\ \E k \in 1..Len(timetable) :
         /\ timetable[k].time > 0
         /\ timetable[k].time = p_jobs[timetable[k].index + 1].delivery_time


\* The timetable read as the data model describes it: the job of an entry runs
\* from the entry's time until the next entry or until its processing is
\* exhausted, whichever is first; the job of the last entry runs to
\* exhaustion.  RunLengths(jobs, tt)[k] is the time entry k's job runs.
RECURSIVE RunLengthsFrom(_, _, _, _, _)
RunLengthsFrom(sjobs, tt, k, remaining, runs) ==
    IF k > Len(tt) THEN runs
    ELSE LET i   == tt[k].index
             run == IF k = Len(tt) THEN remaining[i]
                    ELSE IF remaining[i] <= tt[k + 1].time - tt[k].time
                         THEN remaining[i]
                         ELSE tt[k + 1].time - tt[k].time
         IN  RunLengthsFrom(sjobs, tt, k + 1,
                            [remaining EXCEPT ![i] = remaining[i] - run],
                            Append(runs, run))

RunLengths(sjobs, tt) ==
    RunLengthsFrom(sjobs, tt, 1,
                   [i \in 0..(Len(sjobs) - 1) |-> sjobs[i + 1].processing_time],
                   <<>>)

EntriesOf(tt, i) == {k \in 1..Len(tt) : tt[k].index = i}

\* Time from entry k to the next timetable entry; the last entry has no next
\* entry and is given the time its job runs.
ToNextEntry(sjobs, tt, k) ==
    IF k < Len(tt) THEN tt[k + 1].time - tt[k].time
    ELSE RunLengths(sjobs, tt)[k]

\* C5 as stated: for every job index the intervals from each of its entries to
\* the next timetable entry add up to its processing_time.
C5_AsStated ==
    Returned =>
      \A i \in 0..(Len(p_jobs) - 1) :
        SumOver([k \in EntriesOf(timetable, i) |-> ToNextEntry(p_jobs, timetable, k)],
                EntriesOf(timetable, i))
          = p_jobs[i + 1].processing_time

\* C5: for every job index the times its entries run (each until the next
\* entry or until the job's processing is exhausted, whichever is first) add
\* up to its processing_time.
C5_Conservation ==
    Returned =>
      \A i \in 0..(Len(p_jobs) - 1) :
        SumOver([k \in EntriesOf(timetable, i) |-> RunLengths(p_jobs, timetable)[k]],
                EntriesOf(timetable, i))
          = p_jobs[i + 1].processing_time

\* A returned schedule with a preempted and resumed job and with an idle gap
\* before a later entry.
C5_Witness ==
    /\ Returned
    /\ \E i \in 0..(Len(p_jobs) - 1) : Cardinality(EntriesOf(timetable, i)) >= 2
    /\ \E k \in 1..(Len(timetable) - 1) :
         timetable[k + 1].time - timetable[k].time > RunLengths(p_jobs, timetable)[k]

\* C6 as stated: each entry's time is strictly greater than the previous
\* entry's time.
C6_AsStated ==
    \A k \in 1..(Len(timetable) - 1) : timetable[k].time < timetable[k + 1].time

\* C6: the timetable is ascending by time, and an entry has the time of the
\* previous entry only when the previous entry's job has processing_time 0.
C6_Ascending ==
    \A k \in 1..(Len(timetable) - 1) :
      /\ timetable[k].time <= timetable[k + 1].time
      /\ timetable[k].time = timetable[k + 1].time
           => p_jobs[timetable[k].index + 1].processing_time = 0

\* A returned timetable with two entries at one time and a later entry at a
\* later time.
C6_Witness ==
    /\ Returned
    /\ \E k \in 1..(Len(timetable) - 1) : timetable[k].time = timetable[k + 1].time
    /\ \E k \in 1..(Len(timetable) - 1) : timetable[k].time < timetable[k + 1].time

\* The jobs that are released at clock t and not among the jobs of `scheduled`.
Unscheduled(scheduled, t) ==
    {input[k] : k \in {a \in 1..Len(input) :
                         /\ input[a].delivery_time <= t
                         /\ Count(input, input[a]) > Count(scheduled, input[a])}}

\* C7: the job schrage removes from the pool has the largest cooldown_time
\* among the released jobs not yet scheduled, and the largest processing_time
\* among those of them with that cooldown_time.
C7_PriorityRule ==
    s_iter.kind = "pop" =>
      \A k \in Unscheduled(SubSeq(pi, 1, Len(pi) - 1), s_iter.t) :
        /\ k.cooldown_time <= s_iter.job.cooldown_time
        /\ k.cooldown_time = s_iter.job.cooldown_time
             => k.processing_time <= s_iter.job.processing_time

\* A removal from a pool that holds a job of smaller cooldown_time and a job of
\* the same cooldown_time and smaller processing_time.
C7_Witness ==
    /\ s_iter.kind = "pop"
    /\ \E k \in Unscheduled(SubSeq(pi, 1, Len(pi) - 1), s_iter.t) :
         k.cooldown_time < s_iter.job.cooldown_time
    /\ \E k \in Unscheduled(SubSeq(pi, 1, Len(pi) - 1), s_iter.t) :
         /\ k.cooldown_time = s_iter.job.cooldown_time
         /\ k.processing_time < s_iter.job.processing_time


\* The last iteration of schrage_preemptive switched the machine: it popped
\* and scheduled a job other than the job of the previous timetable entry
\* while that job, pushed back with processing time remaining, was in the heap.
Running == CHOOSE e \in p_iter.pool : e.i = timetable[Len(timetable) - 1].index

Interrupted ==
    /\ p_iter.kind = "pop"
    /\ p_iter.new_entry
    /\ Len(timetable) >= 2
    /\ \E e \in p_iter.pool : e.i = timetable[Len(timetable) - 1].index

ReleasedAt(t) == {k \in 0..(Len(p_jobs) - 1) : p_jobs[k + 1].delivery_time = t}

\* C8 as stated: a running job is interrupted only at an instant at which a
\* job is released whose priority (cooldown_time, then processing_time) is
\* strictly higher than that of the running job, taken with the processing
\* time it has left.
C8_AsStated ==
    Interrupted =>
      \E k \in ReleasedAt(p_iter.t) :
        \/ p_jobs[k + 1].cooldown_time > Running.job.cooldown_time
        \/ /\ p_jobs[k + 1].cooldown_time = Running.job.cooldown_time
           /\ p_jobs[k + 1].processing_time > Running.job.processing_time

\* C8: a running job is interrupted only at an instant at which some job is
\* released, and only by a job that is ahead of it in the heap's order: larger
\* cooldown_time, or equal cooldown_time and more processing time left than the
\* running job, or equal in both and a larger index.
C8_Interrupt ==
    Interrupted =>
      /\ ReleasedAt(p_iter.t) # {}
      /\ \/ p_iter.job.cooldown_time > Running.job.cooldown_time
         \/ /\ p_iter.job.cooldown_time = Running.job.cooldown_time
            /\ p_iter.job.processing_time > Running.job.processing_time
         \/ /\ p_iter.job.cooldown_time = Running.job.cooldown_time
            /\ p_iter.job.processing_time = Running.job.processing_time
            /\ p_iter.i > Running.i

\* A running job is interrupted by a job that was waiting in the heap, at the
\* release of a job of smaller cooldown_time.
C8_Witness ==
    /\ Interrupted
    /\ p_jobs[p_iter.i + 1].delivery_time < p_iter.t
    /\ \A k \in ReleasedAt(p_iter.t) :
         p_jobs[k + 1].cooldown_time < Running.job.cooldown_time

\* C9: the job popped at clock p_iter.t, which runs until the new clock p_t,
\* has the largest cooldown_time among the jobs not finished before the pop
\* that are released at the pop or before the run ends.
C9_LargestCooldownRuns ==
    p_iter.kind = "pop" =>
      \A k \in 0..(Len(p_jobs) - 1) :
        (/\ k \notin p_iter.finished
         /\ \/ p_jobs[k + 1].delivery_time <= p_iter.t
            \/ p_jobs[k + 1].delivery_time < p_t)
          => p_jobs[k + 1].cooldown_time <= p_iter.job.cooldown_time

\* A run is cut short at the release of a job of larger cooldown_time while
\* another job of smaller cooldown_time waits.
C9_Witness ==
    /\ p_iter.kind = "pop"
    /\ p_iter.pushed_back
    /\ p_t > p_iter.t
    /\ \E k \in ReleasedAt(p_t) :
         p_jobs[k + 1].cooldown_time > p_iter.job.cooldown_time
    /\ \E e \in p_iter.pool : e.job.cooldown_time < p_iter.job.cooldown_time

\* C10 as stated: each scheduler has removed exactly n jobs from its pool when
\* it returns.
C10_AsStated ==
    Returned => s_decisions = Len(input) /\ p_decisions = Len(input)

\* C10: both schedulers return; schrage has then removed exactly n jobs from
\* its pool, and schrage_preemptive n plus one for every entry it pushed back,
\* which is at most 2n - 1 for n >= 1.
C10_Termination ==
    /\ <>Returned
    /\ [](Returned =>
            /\ s_decisions = Len(input)
            /\ p_decisions = Len(input) + p_preemptions
            /\ Len(input) >= 1 => p_preemptions <= Len(input) - 1
            /\ Len(input) = 0 => p_preemptions = 0)

\* Both schedulers have returned, schrage_preemptive after two preemptions.
C10_Witness ==
    /\ Returned
    /\ s_decisions = 3
    /\ p_decisions = 5

\* C11: the jobs field of schrage_preemptive's result holds every job of the
\* input exactly as often as the input does, with its processing_time as in
\* the input, in an order of non-decreasing delivery_time.
C11_JobsField ==
    pc \in {"preemptive", "done"} =>
      /\ SameMultiset(p_jobs, input)
      /\ \A a, b \in 1..Len(p_jobs) :
           a < b => p_jobs[a].delivery_time <= p_jobs[b].delivery_time

\* A returned schedule of jobs with different delivery times, one of which
\* was preempted.
C11_Witness ==
    /\ Returned
    /\ p_preemptions >= 1
    /\ \E a, b \in 1..Len(p_jobs) : p_jobs[a].delivery_time < p_jobs[b].delivery_time
    /\ \E a, b \in 1..Len(input) : a < b /\ input[a].processing_time > input[b].processing_time

\* C12: no timetable entry has the job index of the entry before it.
C12_NoRepeat ==
    \A k \in 1..(Len(timetable) - 1) : timetable[k].index # timetable[k + 1].index

\* The job of the last entry was pushed back at a release and popped again:
\* it continues without a new entry.
C12_Witness ==
    /\ p_iter.kind = "pop"
    /\ ~p_iter.new_entry
    /\ Len(timetable) >= 2

\* C13: every index in the timetable is one of 0..n-1; in the returned
\* timetable every index of 0..n-1 has an entry, and the timetable is
\* non-empty exactly when the input is.
C13_Indices ==
    /\ \A k \in 1..Len(timetable) : timetable[k].index \in 0..(Len(input) - 1)
    /\ Returned =>
         /\ \A i \in 0..(Len(input) - 1) : EntriesOf(timetable, i) # {}
         /\ Len(timetable) # 0 <=> Len(input) # 0

\* A returned timetable of three jobs, one of them with two entries.
C13_Witness ==
    /\ Returned
    /\ Len(input) = 3
    /\ Len(timetable) > 3

\* C14: on the empty collection neither scheduler fails, schrage returns the
\* empty sequence, schrage_preemptive returns empty jobs and an empty
\* timetable, and both c_max are 0 on these results.
C14_EmptyInput ==
    input = <<>> =>
      /\ pc # "panic"
      /\ pc \in {"call_preemptive", "preemptive", "done"} =>
           pi = <<>> /\ SchrageCMax = 0 /\ s_decisions = 0
      /\ Returned =>
           /\ p_jobs = <<>> /\ timetable = <<>>
           /\ PreemptiveCMax = 0 /\ p_decisions = 0

\* Both calls have returned on the empty collection.
C14_Witness == Returned /\ input = <<>>

\* C15 as stated: on the module documentation's example the makespan of the
\* schedule schrage_preemptive returns is 50.
C15_AsStated ==
    (Returned /\ input = Example1) => PreemptiveCMax = 50

\* C15: on the module documentation's example the makespan of the schedule
\* schrage_preemptive returns is 49.
C15_Example1 ==
    (Returned /\ input = Example1) => PreemptiveCMax = 49

\* schrage_preemptive has returned on that example, after a preemption.
C15_Witness ==
    /\ Returned
    /\ input = Example1
    /\ p_preemptions >= 1

\* C16: on schrage_preemptive's documentation example the result has the jobs
\* in delivery order, the timetable [(0,0),(27,1),(133,2),(140,3),(147,2)],
\* and the makespan 221.
C16_Example2 ==
    (Returned /\ input = Example2) =>
      /\ p_jobs = <<JobNew(0, 27, 78), JobNew(14, 36, 54), JobNew(133, 76, 5),
                    JobNew(140, 7, 67)>>
      /\ timetable = <<[time |-> 0, index |-> 0], [time |-> 27, index |-> 1],
                       [time |-> 133, index |-> 2], [time |-> 140, index |-> 3],
                       [time |-> 147, index |-> 2]>>
      /\ PreemptiveCMax = 221

\* schrage_preemptive has returned on that example.
C16_Witness ==
    /\ Returned
    /\ input = Example2
    /\ Len(timetable) = 5

\* No two jobs that differ share the pair (cooldown_time, processing_time).
NoSharedPriority(js) ==
    \A a, b \in 1..Len(js) :
      js[a] # js[b] =>
        \/ js[a].cooldown_time # js[b].cooldown_time
        \/ js[a].processing_time # js[b].processing_time

\* C17: when no two different jobs of the input share the pair
\* (cooldown_time, processing_time), schrage called on any ordering of the
\* input returns one and the same sequence, the one this run returned.
C17_OrderIndependent ==
    (pc = "call_preemptive" /\ NoSharedPriority(input)) =>
      \A order \in Rearrangements(input) : SchrageResults(order) = {pi}

\* schrage has returned on three jobs, two of them different jobs with the
\* same delivery_time, in an order that is not the caller's.
C17_Witness ==
    /\ pc = "call_preemptive"
    /\ NoSharedPriority(input)
    /\ Len(input) = 3
    /\ \E a, b \in 1..Len(input) :
         input[a] # input[b] /\ input[a].delivery_time = input[b].delivery_time
    /\ pi # input

\* ------------------------------------------------- JobSchedule::c_max alone
\* Timetables of k entries over n jobs with times up to MaxTime, ascending by
\* time.
RECURSIVE TimetablesOfLen(_, _)
TimetablesOfLen(n, k) ==
    IF k = 0 THEN {<<>>}
    ELSE {Append(x[1], x[2]) :
            x \in {y \in TimetablesOfLen(n, k - 1)
                           \X [time : 0..MaxTime, index : 0..(n - 1)] :
                     k = 1 \/ y[1][k - 1].time <= y[2].time}}

Timetables(n) == UNION {TimetablesOfLen(n, k) : k \in 0..MaxEntries}

\* The processing time job tt[k].index has left when entry k begins.
RemainingAt(sjobs, tt, k) ==
    LET runs == RunLengths(sjobs, tt)
        before == {e \in EntriesOf(tt, tt[k].index) : e < k}
    IN  sjobs[tt[k].index + 1].processing_time
          - SumOver([e \in before |-> runs[e]], before)

\* A schedule of the data model: every job has an entry and none before its
\* delivery_time; every entry starts or resumes its job (the job has
\* processing time left, or has processing_time 0 and no earlier entry); the
\* job of an entry runs until the next entry or until it is exhausted,
\* whichever is first, and every job is processed in full.  Idle gaps,
\* preemptions and entries at equal times are allowed.
IsSchedule(sjobs, tt) ==
    LET runs == RunLengths(sjobs, tt)
    IN  /\ \A i \in 0..(Len(sjobs) - 1) :
             /\ EntriesOf(tt, i) # {}
             /\ SumOver([e \in EntriesOf(tt, i) |-> runs[e]], EntriesOf(tt, i))
                  = sjobs[i + 1].processing_time
        /\ \A k \in 1..Len(tt) :
             /\ tt[k].time >= sjobs[tt[k].index + 1].delivery_time
             /\ \/ RemainingAt(sjobs, tt, k) > 0
                \/ \A e \in EntriesOf(tt, tt[k].index) : e >= k

\* The JobSchedule values c_max is called on.  c_max does not read
\* delivery_time, so the jobs are taken with delivery_time 0; the timetable
\* depends on the processing times only.
CMaxInit ==
    /\ \E n \in 0..MaxJobs :
         \E ps \in [1..n -> 0..MaxProcessing] :
           /\ timetable \in
                {tt \in Timetables(n) :
                   IsSchedule([k \in 1..n |-> JobNew(0, ps[k], 0)], tt)}
           /\ \E qs \in [1..n -> 0..MaxCooldown] :
                p_jobs = [k \in 1..n |-> JobNew(0, ps[k], qs[k])]
    /\ pc = "call_c_max"
    /\ input = <<>>
    /\ s_jobs = <<>>
    /\ s_ready_to_run = EmptyBag
    /\ s_t = 0
    /\ pi = <<>>
    /\ s_iter = SNoIter
    /\ s_decisions = 0
    /\ s_selected_at = <<>>
    /\ p_ready_to_run = {}
    /\ p_t = 0
    /\ job_index = 0
    /\ p_iter = PNoIter
    /\ p_decisions = 0
    /\ p_finished = {}
    /\ p_preemptions = 0
    /\ p_finished_at = [i \in {} |-> 0]
    /\ c_result = 0

\* JobSchedule{jobs, timetable}.c_max()
ScheduleCMax ==
    /\ pc = "call_c_max"
    /\ c_result' = JobScheduleCMax(p_jobs, timetable)
    /\ pc' = "c_max_done"
    /\ UNCHANGED <<input, s_vars, p_vars>>

CMaxNext == ScheduleCMax

CMaxSpec == CMaxInit /\ [][CMaxNext]_vars

\* The instant at which the processing of job i ends: the end of the run that
\* exhausts it, and the time of its entry when it has processing_time 0.
EndInstant(sjobs, tt, i) ==
    LET runs == RunLengths(sjobs, tt)
        worked == {e \in EntriesOf(tt, i) : runs[e] > 0}
    IN  IF worked = {} THEN tt[Min(EntriesOf(tt, i))].time
        ELSE tt[Max(worked)].time + runs[Max(worked)]

\* C18: on every schedule of the data model JobSchedule::c_max returns the
\* largest, over the jobs, of the instant at which the job's processing ends
\* plus its cooldown_time (0 when there is no job).
C18_LastCompletion ==
    pc = "c_max_done" =>
      c_result = Max({0} \cup {EndInstant(p_jobs, timetable, i)
                                 + p_jobs[i + 1].cooldown_time :
                               i \in 0..(Len(p_jobs) - 1)})

\* c_max has returned on a schedule with a preempted and resumed job and an
\* idle gap, in which the job finishing last on the machine does not decide
\* the makespan.
C18_Witness ==
    /\ pc = "c_max_done"
    /\ \E a, b, c \in 1..Len(timetable) :
         /\ a < b /\ b < c
         /\ timetable[a].index = timetable[c].index
         /\ timetable[a].index # timetable[b].index
         /\ \A e \in {a, b, c} : RunLengths(p_jobs, timetable)[e] > 0
    /\ \E k \in 1..(Len(timetable) - 1) :
         timetable[k + 1].time - timetable[k].time > RunLengths(p_jobs, timetable)[k]
    /\ c_result > EndInstant(p_jobs, timetable, timetable[Len(timetable)].index)
                    + p_jobs[timetable[Len(timetable)].index + 1].cooldown_time

\* The delivery times of the jobs of the input that schrage has not yet
\* appended to pi.
SchragePending ==
    {input[k].delivery_time :
       k \in {a \in 1..Len(input) : Count(input, input[a]) > Count(pi, input[a])}}

\* The delivery times of the jobs schrage_preemptive has not yet finished.
PreemptivePending ==
    {p_jobs[k + 1].delivery_time : k \in (0..(Len(p_jobs) - 1)) \ p_finished}

\* C19: an iteration that finds the pool empty never fails on the lookup of
\* the next job; a job is then still to come, no job that is not finished
\* has been released by the old clock, and the new clock is the smallest
\* delivery_time of the jobs not finished, which is greater than the old clock.
C19_IdleJump ==
    /\ pc # "panic"
    /\ s_iter.kind = "idle" =>
         /\ SchragePending # {}
         /\ \A d \in SchragePending : d > s_iter.t
         /\ s_t = Min(SchragePending)
         /\ s_t > s_iter.t
    /\ p_iter.kind = "idle" =>
         /\ PreemptivePending # {}
         /\ \A d \in PreemptivePending : d > p_iter.t
         /\ p_t = Min(PreemptivePending)
         /\ p_t > p_iter.t

\* schrage_preemptive has just jumped over an idle gap after finishing a job,
\* on an input with no job released at time 0, so that schrage, which has
\* returned, had to jump as well.
C19_Witness ==
    /\ p_iter.kind = "idle"
    /\ p_iter.t > 0
    /\ p_finished # {}
    /\ Len(pi) = Len(input)
    /\ \A k \in 1..Len(input) : input[k].delivery_time > 0

\* The machine time the timetable gives job i up to the clock `now`: its runs,
\* with the run of the last entry cut at `now`.
SpentUntil(sjobs, tt, now, i) ==
    IF Len(tt) = 0 THEN 0
    ELSE LET runs == RunLengths(sjobs,
                       Append(tt, [time |-> now, index |-> tt[Len(tt)].index]))
         IN  SumOver([e \in EntriesOf(tt, i) |-> runs[e]], EntriesOf(tt, i))

\* The processing time job i still has to get: what its copy in the pool
\* holds, nothing once it is finished, all of it before its release.
LeftOf(i) ==
    IF \E e \in p_ready_to_run : e.i = i
    THEN (CHOOSE e \in p_ready_to_run : e.i = i).job.processing_time
    ELSE IF i \in p_finished THEN 0
    ELSE p_jobs[i + 1].processing_time

\* The first delivery time after the clock t.
NextReleaseAfter(t) ==
    Min({p_jobs[k].delivery_time : k \in {a \in 1..Len(p_jobs) : p_jobs[a].delivery_time > t}})

\* C20: when a popped job is pushed back, the clock is set back to the next
\* release time, which is after the time of the pop and before the time the
\* job would have been done; the copy pushed back holds at least 1 and less
\* than the copy popped.  Between iterations every job's machine time so far
\* plus the processing time it still has to get is its processing_time.
C20_PreemptionStep ==
    /\ (p_iter.kind = "pop" /\ p_iter.pushed_back) =>
         /\ p_t = NextReleaseAfter(p_iter.t)
         /\ p_t > p_iter.t
         /\ p_t < p_iter.t_run
         /\ \E e \in p_ready_to_run :
              /\ e.i = p_iter.i
              /\ e.job.processing_time >= 1
              /\ e.job.processing_time < p_iter.job.processing_time
              /\ e.job.processing_time = p_iter.job.processing_time - (p_t - p_iter.t)
    /\ pc \in {"preemptive", "done"} =>
         /\ \A e, f \in p_ready_to_run : e.i = f.i => e = f
         /\ \A i \in 0..(Len(p_jobs) - 1) :
              SpentUntil(p_jobs, timetable, p_t, i) + LeftOf(i)
                = p_jobs[i + 1].processing_time

\* A job is pushed back for the second time, while another job has already
\* been run to its end.
C20_Witness ==
    /\ p_iter.kind = "pop"
    /\ p_iter.pushed_back
    /\ p_iter.job.processing_time < p_jobs[p_iter.i + 1].processing_time
    /\ p_finished # {}

\* The clock at the end of the run that finished job i, plus its cooldown_time.
CooledAfterRun(i) == p_finished_at[i] + p_jobs[i + 1].cooldown_time

\* C21: JobSchedule::c_max of the returned schedule is the largest, over the
\* jobs, of the clock value at which the scheduler finished the job plus the
\* job's cooldown_time (0 for no jobs); every job has such a clock value.
C21_ReplayOfSchedule ==
    Returned =>
      /\ DOMAIN p_finished_at = 0..(Len(p_jobs) - 1)
      /\ PreemptiveCMax = Max({0} \cup {CooledAfterRun(i) : i \in DOMAIN p_finished_at})

\* The machine idles before the first job, a job is interrupted by a job of
\* processing_time 0, and a job that is not the last entry's decides the result.
C21_Witness ==
    /\ Returned
    /\ Len(timetable) >= 3
    /\ timetable[1].time > 0
    /\ p_preemptions >= 1
    /\ \E i \in DOMAIN p_finished_at :
         /\ p_jobs[i + 1].processing_time = 0
         /\ \E k \in 2..(Len(timetable) - 1) : timetable[k].index = i
    /\ \E i \in DOMAIN p_finished_at :
         /\ i # timetable[Len(timetable)].index
         /\ CooledAfterRun(i) = PreemptiveCMax
         /\ CooledAfterRun(timetable[Len(timetable)].index) < PreemptiveCMax

\* The time at which JobList::c_max lets the k-th job of `list` start: the
\* value of `s` after the jobs before it, or the job's delivery_time if that
\* is greater.
ReplayStart(list, k) ==
    max(JobListCMaxFrom(SubSeq(list, 1, k - 1), 1, [s |-> 0, makespan |-> 0]).s,
        list[k].delivery_time)

\* C22: for every position k of schrage's output, the start time JobList::c_max
\* uses for the k-th job is the clock at which schrage removed that job from
\* the pool, and JobList::c_max of the output is the largest, over the
\* positions, of that clock + processing_time + cooldown_time (0 for no jobs).
C22_ReplayOfOrder ==
    pc \in {"call_preemptive", "preemptive", "done"} =>
      /\ Len(s_selected_at) = Len(pi)
      /\ \A k \in 1..Len(pi) : ReplayStart(pi, k) = s_selected_at[k]
      /\ SchrageCMax = Max({0} \cup {s_selected_at[k] + pi[k].processing_time
                                       + pi[k].cooldown_time : k \in 1..Len(pi)})

\* schrage has returned three jobs: one removed after its delivery_time, one
\* of processing_time 0, and one removed after the machine had to wait; the
\* last job does not decide the makespan.
C22_Witness ==
    /\ pc = "call_preemptive"
    /\ Len(pi) = 3
    /\ \E k \in 1..3 : s_selected_at[k] > pi[k].delivery_time
    /\ \E k \in 1..3 : pi[k].processing_time = 0
    /\ \E k \in 2..3 :
         s_selected_at[k] > s_selected_at[k - 1] + pi[k - 1].processing_time
    /\ SchrageCMax > s_selected_at[3] + pi[3].processing_time + pi[3].cooldown_time

\* The entries for a job index that already occurred earlier in the timetable.
ResumeEntries(tt) == {k \in 1..Len(tt) : \E a \in 1..(k - 1) : tt[a].index = tt[k].index}

\* The entries that are the first of their job index.
FirstStartEntries(tt) == (1..Len(tt)) \ ResumeEntries(tt)

\* C23: for a non-empty input of n jobs the timetable never has more than
\* 2n-1 entries and never more than n-1 resume entries, and the returned
\* timetable has one first-start entry for each of the n jobs.
C23_TimetableLength ==
    (pc \in {"preemptive", "done"} /\ Len(input) >= 1) =>
      /\ Len(timetable) <= 2 * Len(input) - 1
      /\ Cardinality(ResumeEntries(timetable)) <= Len(input) - 1
      /\ Cardinality(FirstStartEntries(timetable)) <= Len(input)
      /\ Returned =>
           /\ Cardinality(FirstStartEntries(timetable)) = Len(input)
           /\ \A i \in 0..(Len(input) - 1) :
                \E k \in FirstStartEntries(timetable) : timetable[k].index = i

\* Three jobs are returned with five entries: two of the jobs are resumed.
C23_Witness ==
    /\ Returned
    /\ Len(input) = 3
    /\ Len(timetable) = 5
    /\ Cardinality(ResumeEntries(timetable)) = 2

\* (largest delivery_time) + (sum of all processing_time) of a collection; 0
\* for the empty collection.
ClockBound(js) ==
    IF Len(js) = 0 THEN 0
    ELSE Max({js[k].delivery_time : k \in 1..Len(js)})
           + SumOver([k \in 1..Len(js) |-> js[k].processing_time], 1..Len(js))

\* The largest cooldown_time of a collection; 0 for the empty collection.
LargestCooldown(js) == Max({0} \cup {js[k].cooldown_time : k \in 1..Len(js)})

\* C24: the clocks of schrage and of schrage_preemptive, the value of
\* t + processing_time before a roll-back included, never exceed the largest
\* delivery_time plus the sum of the processing times of the input.  On the
\* results, JobList::c_max and JobSchedule::c_max are at most that bound plus
\* the largest cooldown_time; they are the largest values these functions
\* compute, since every sum they form enters a max with makespan and the
\* subtraction `time - prev_time` has time >= prev_time.
C24_ClockBound ==
    /\ s_t <= ClockBound(input)
    /\ \A k \in 1..Len(pi) :
         s_selected_at[k] + pi[k].processing_time <= ClockBound(input)
    /\ p_t <= ClockBound(input)
    /\ p_iter.t <= ClockBound(input)
    /\ p_iter.t_run <= ClockBound(input)
    /\ \A i \in DOMAIN p_finished_at : p_finished_at[i] <= ClockBound(input)
    /\ pc \in {"call_preemptive", "preemptive", "done"} =>
         SchrageCMax <= ClockBound(input) + LargestCooldown(input)
    /\ Returned =>
         /\ PreemptiveCMax <= ClockBound(input) + LargestCooldown(input)
         /\ \A k \in 2..Len(timetable) : timetable[k].time >= timetable[k - 1].time
         /\ \A k \in 1..Len(timetable) :
              timetable[k].time <= ClockBound(input) + LargestCooldown(input)

\* Three jobs with processing and cooldown times above 0 are returned after
\* the machine had to wait for the first: both clocks end at the bound and
\* both makespans at the bound plus the largest cooldown_time.
C24_Witness ==
    /\ Returned
    /\ Len(input) = 3
    /\ \A k \in 1..3 : input[k].processing_time > 0 /\ input[k].cooldown_time > 0
    /\ s_selected_at[1] > 0
    /\ s_t = ClockBound(input)
    /\ p_t = ClockBound(input)
    /\ SchrageCMax = ClockBound(input) + LargestCooldown(input)
    /\ PreemptiveCMax = ClockBound(input) + LargestCooldown(input)

====
